---- MODULE Spec2Model ----
(***************************************************************************)
(* Model of kafka_stats_parser.py: the loader/deduplicator (_load_stats),  *)
(* the time-series builder (_get_time_series_data) and the control flow of *)
(* main() around them (Spec), and the per-plot diagnostics (_series_stats, *)
(* _write_plot_debug, plot_data's legend label) applied to one series      *)
(* (SpecDiag).                                                             *)
(*                                                                         *)
(* Representation.                                                         *)
(*  - Python's None for an integer field is the value None (-9); real ts   *)
(*    and time values are naturals.  A ts of the wrong JSON type (a        *)
(*    string) is StrTs.  None for a string field is the string "None".     *)
(*  - A Python dict is a function; dict.get(k, d) is Get(d, k, default).   *)
(*  - The file text is a sequence of cells.  A JSON value is two cells, a  *)
(*    "val" cell (all of its text but the last character, carrying the     *)
(*    decoded value) followed by an "end" cell (its last character, which  *)
(*    starts no JSON value); "ws" is one whitespace character and "junk"   *)
(*    one character that starts no JSON value.                             *)
(*  - Topic names and partition ids are sequences of characters, because   *)
(*    the builder concatenates, prefix-tests and splits them.              *)
(*  - A series entry is a record [nan, num, den]: the gap marker np.nan,   *)
(*    or the number num / den (Python's true division, kept exact).        *)
(***************************************************************************)
EXTENDS Integers, Sequences, FiniteSets, TLC

VARIABLES
    file_exists,    \* whether args.stats_file names an existing file
    content,        \* the text of the file, a sequence of cells
    pc,             \* position of the program in main() / _load_stats
    pos,            \* _load_stats: offset of the sequential fallback
    history,        \* _load_stats: snapshots parsed so far (pre-dedup)
    stats_history,  \* LibrdKafkaStatsParser.stats_history
    out,            \* messages printed to the operator
    exc,            \* exception propagating out of the program, or "none"
    data,           \* generate_graphs: result of _get_time_series_data
    charted,        \* generate_graphs: whether the charts were drawn
    state_plot,     \* generate_graphs: what the 'Broker State' plot produced
    values,         \* diagnostics: one series of a plot's data_map
    show_valid,     \* diagnostics: plot_data's show_valid argument
    label,          \* diagnostics: the legend label plot_data gave the series
    series_stats,   \* diagnostics: the record _series_stats made of the series
    summary,        \* diagnostics: the summary line _write_plot_debug wrote
    csv,            \* diagnostics: the series' column of the CSV, row by row
    dstep           \* diagnostics: position in the per-plot sequence

diagvars == <<values, show_valid, label, series_stats, summary, csv, dstep>>

vars == <<file_exists, content, pc, pos, history, stats_history, out, exc,
          data, charted, state_plot, diagvars>>

----------------------------------------------------------------------------
(* Bounds of the model *)

MaxSnap == 3    \* snapshots in an array file
MaxTime == 2    \* largest epoch_seconds of an array file
MaxItems == 4   \* values, whitespace and junk characters in a stream file
MaxPoints == 4  \* entries of a series given to the diagnostics

----------------------------------------------------------------------------
(* Values *)

None == -9
StrTs == -8
NoneStr == "None"

EmptyMap == [x \in {} |-> x]

Get(d, k, default) == IF k \in DOMAIN d THEN d[k] ELSE default

\* str.startswith
StartsWith(s, p) == Len(p) <= Len(s) /\ SubSeq(s, 1, Len(p)) = p

\* f"{t_name}-{p_id}"
PartitionKey(t, p) == t \o <<"-">> \o p

\* p_key.rsplit('-', 1)[1]
RsplitLast(k) ==
    LET dashes == {i \in 1..Len(k) : k[i] = "-"}
        cut == CHOOSE i \in dashes : \A j \in dashes : j <= i
    IN SubSeq(k, cut + 1, Len(k))

----------------------------------------------------------------------------
(* Snapshot model: typed views over one raw record *)

PartitionStats(pdata) ==
    [partition |-> Get(pdata, "partition", None),
     leader |-> Get(pdata, "leader", None),
     consumer_lag |-> Get(pdata, "consumer_lag", -1),
     consumer_lag_stored |-> Get(pdata, "consumer_lag_stored", -1),
     committed_offset |-> Get(pdata, "committed_offset", -1001),
     stored_offset |-> Get(pdata, "stored_offset", -1001),
     committed_leader_epoch |-> Get(pdata, "committed_leader_epoch", -1)]

TopicStats(tdata) ==
    [partitions |-> [p \in DOMAIN tdata.partitions |->
                        PartitionStats(tdata.partitions[p])]]

BrokerStats(bdata) ==
    [source |-> Get(bdata, "source", NoneStr),
     state |-> Get(bdata, "state", NoneStr),
     connects |-> Get(bdata, "connects", 0),
     disconnects |-> Get(bdata, "disconnects", 0),
     rxbytes |-> Get(bdata, "rxbytes", 0),
     txbytes |-> Get(bdata, "txbytes", 0),
     rxerrs |-> Get(bdata, "rxerrs", 0),
     txerrs |-> Get(bdata, "txerrs", 0),
     rtt_avg |-> Get(bdata, "rtt_avg", None),          \* data.get('rtt', {}).get('avg')
     throttle_avg |-> Get(bdata, "throttle_avg", None)] \* data.get('throttle', {}).get('avg')

\* RdKafkaStats.__init__ on a raw value that is a dict with mapping fields
RdKafkaStats(raw) ==
    [ts |-> raw.ts,
     time |-> raw.time,
     type |-> raw.type,
     brokers |-> [b \in DOMAIN raw.brokers |-> BrokerStats(raw.brokers[b])],
     topics |-> [t \in DOMAIN raw.topics |-> TopicStats(raw.topics[t])]]

\* RdKafkaStats.__init__ raises AttributeError: data.get on a value that is
\* no dict, or .items() on a brokers/topics field that is no mapping
InitRaises(raw) == raw.kind # "object" \/ ~raw.brokers_is_map

----------------------------------------------------------------------------
(* list.sort(key=...): ascending and stable *)

Rank(ks, j) ==
    Cardinality({k \in DOMAIN ks : ks[k] < ks[j] \/ (ks[k] = ks[j] /\ k < j)}) + 1

SortedBy(s, ks) ==
    [i \in DOMAIN s |-> s[CHOOSE j \in DOMAIN s : Rank(ks, j) = i]]

\* key=lambda s: s.ts if s.ts is not None else 0
TsKey(s) == IF s.ts # None THEN s.ts ELSE 0

\* key=lambda s: s.time if s.time is not None else 0
TimeKey(s) == IF s.time # None THEN s.time ELSE 0

\* history.sort(key=TsKey)
SortByTs(h) == SortedBy(h, [i \in DOMAIN h |-> TsKey(h[i])])

\* deduplicated.sort(key=TimeKey)
SortByTime(h) == SortedBy(h, [i \in DOMAIN h |-> TimeKey(h[i])])

\* history.sort raises TypeError when a str key meets an int key
SortRaises(h) ==
    \E i, j \in DOMAIN h : h[i].ts = StrTs /\ h[j].ts # StrTs

----------------------------------------------------------------------------
(* Deduplication: merge records with the same timestamp *)

\* for part_id ...: if part_id not in existing...partitions: add
MergePartitions(ep, sp) ==
    [p \in DOMAIN ep \cup DOMAIN sp |-> IF p \in DOMAIN ep THEN ep[p] ELSE sp[p]]

\* Mutant: a topic the anchor already holds keeps the anchor's partitions only
MergeTopicsShallow(et, st) ==
    [t \in DOMAIN et \cup DOMAIN st |-> IF t \in DOMAIN et THEN et[t] ELSE st[t]]

\* for topic_name ...: if topic_name not in existing.topics: add, else merge
MergeTopics(et, st) ==
    [t \in DOMAIN et \cup DOMAIN st |->
        IF t \notin DOMAIN et THEN st[t]
        ELSE IF t \notin DOMAIN st THEN et[t]
        ELSE [partitions |-> MergePartitions(et[t].partitions, st[t].partitions)]]

\* Mutant: the later snapshot's broker overwrites the anchor's
MergeBrokersOverwrite(eb, sb) ==
    [b \in DOMAIN eb \cup DOMAIN sb |-> IF b \in DOMAIN sb THEN sb[b] ELSE eb[b]]

\* for broker_name ...: if broker_name not in existing.brokers: add
MergeBrokers(eb, sb) ==
    [b \in DOMAIN eb \cup DOMAIN sb |-> IF b \in DOMAIN eb THEN eb[b] ELSE sb[b]]

\* the body of "if stat.time in seen_timestamps"
MergeInto(existing, stat) ==
    [existing EXCEPT !.topics = MergeTopics(existing.topics, stat.topics),
                     !.brokers = MergeBrokers(existing.brokers, stat.brokers)]

\* Mutant: the walk keys every snapshot, also one without a time
KeyedAlways(stat) == TRUE

\* "if stat.time is not None": whether the walk keys this snapshot
Keyed(stat) == stat.time # None

\* The walk "for stat in history" from index i on; seen is seen_timestamps,
\* a dict in insertion order, kept as the sequence of its values.
RECURSIVE DedupWalk(_, _, _)
DedupWalk(h, i, seen) ==
    IF i > Len(h) THEN seen
    ELSE IF ~Keyed(h[i]) THEN DedupWalk(h, i + 1, seen)
    ELSE IF \E k \in DOMAIN seen : seen[k].time = h[i].time
         THEN LET e == CHOOSE k \in DOMAIN seen : seen[k].time = h[i].time
              IN DedupWalk(h, i + 1, [seen EXCEPT ![e] = MergeInto(@, h[i])])
         ELSE DedupWalk(h, i + 1, Append(seen, h[i]))

\* Mutant: the anchors are returned in insertion order, not re-sorted
DeduplicatedUnsorted(sorted) == DedupWalk(sorted, 1, <<>>)

\* deduplicated = list(seen_timestamps.values()); deduplicated.sort(...)
Deduplicated(sorted) == SortByTime(DedupWalk(sorted, 1, <<>>))

\* Mutant: the sorted history, its anchors merged in place, is returned
\* instead of the deduplicated list
DedupStepReturnsHistory(h) ==
    LET sorted == SortByTs(h)
        seen == DedupWalk(sorted, 1, <<>>)
    IN [i \in DOMAIN sorted |->
          IF Keyed(sorted[i]) /\ \A j \in 1..(i - 1) : sorted[j].time # sorted[i].time
          THEN seen[CHOOSE k \in DOMAIN seen : seen[k].time = sorted[i].time]
          ELSE sorted[i]]

\* Lines 212-245 of _load_stats on the parsed list h: sort, walk, re-sort
DedupStep(h) == Deduplicated(SortByTs(h))

----------------------------------------------------------------------------
(* The file text and the JSON decoders *)

NoRaw ==
    [kind |-> "none", ts |-> None, time |-> None, type |-> NoneStr,
     brokers_is_map |-> FALSE, brokers |-> EmptyMap, topics |-> EmptyMap,
     elems |-> <<>>]

WsCell == [k |-> "ws", v |-> NoRaw]
JunkCell == [k |-> "junk", v |-> NoRaw]
EndCell == [k |-> "end", v |-> NoRaw]
ValCell(raw) == [k |-> "val", v |-> raw]

\* str.lstrip()
RECURSIVE Lstrip(_)
Lstrip(s) == IF s # <<>> /\ Head(s).k = "ws" THEN Lstrip(Tail(s)) ELSE s

\* str.rstrip(), which json.loads applies through its trailing-whitespace match
RECURSIVE Rstrip(_)
Rstrip(s) ==
    IF s # <<>> /\ s[Len(s)].k = "ws" THEN Rstrip(SubSeq(s, 1, Len(s) - 1)) ELSE s

\* content[pos:]
From(s, p) == SubSeq(s, p + 1, Len(s))

\* decoder.raw_decode(s) succeeds: s starts with a complete JSON value
CanDecode(s) == Len(s) >= 2 /\ s[1].k = "val" /\ s[2].k = "end"

\* the (obj, read_len) of decoder.raw_decode(s)
RawDecode(s) == [obj |-> s[1].v, read_len |-> 2]

\* json.loads(content) succeeds: the text is one JSON value, whitespace around
LoadsOk(c) == LET s == Rstrip(Lstrip(c)) IN CanDecode(s) /\ Len(s) = 2

\* the value json.loads(content) returns
Loads(c) == Lstrip(c)[1].v

\* the raw snapshots of "if isinstance(stats_list, list) ... else ..."
RawList(v) == IF v.kind = "array" THEN v.elems ELSE <<v>>

----------------------------------------------------------------------------
(* Time-Series Builder: _get_time_series_data *)

\* A series entry: a number num/den, or the gap marker np.nan
Num(n) == [nan |-> FALSE, num |-> n, den |-> 1]
NaN == [nan |-> TRUE, num |-> 0, den |-> 1]
Ratio(n, d) == [nan |-> FALSE, num |-> n, den |-> d]

MiB == 1024 * 1024

\* Mutant: DOWN is not in the map
StateMapWithoutDown(state) ==
    CASE state = "UP" -> Num(1)
      [] state = "INIT" -> Num(0)
      [] OTHER -> NaN

\* state_map.get(state, np.nan)
StateMap(state) ==
    CASE state = "UP" -> Num(1)
      [] state = "INIT" -> Num(0)
      [] state = "DOWN" -> Num(-1)
      [] OTHER -> NaN

\* plottable_stats = [s for s in self.stats_history if s.time is not None]
Plottable(h) == SelectSeq(h, LAMBDA st : st.time # None)

AllBrokerKeys(ps) ==
    {b \in UNION {DOMAIN ps[i].brokers : i \in DOMAIN ps} :
        \E i \in DOMAIN ps :
            b \in DOMAIN ps[i].brokers /\ ps[i].brokers[b].source # "logical"}

AllTopicKeys(ps) == UNION {DOMAIN ps[i].topics : i \in DOMAIN ps}

AllPartitionKeys(ps) ==
    UNION {UNION {{PartitionKey(t, p) :
                      p \in {q \in DOMAIN ps[i].topics[t].partitions :
                                ps[i].topics[t].partitions[q].partition # -1}} :
                  t \in DOMAIN ps[i].topics} :
           i \in DOMAIN ps}

EmptyBrokerData ==
    [rtt |-> <<>>, state |-> <<>>, throttle |-> <<>>, connects |-> <<>>,
     disconnects |-> <<>>, rx_rate |-> <<>>, tx_rate |-> <<>>, rxerrs |-> <<>>,
     txerrs |-> <<>>, last_rxbytes |-> None, last_txbytes |-> None]

EmptyPartitionData ==
    [lag |-> <<>>, lag_stored |-> <<>>, committed |-> <<>>, stored |-> <<>>,
     leader_epoch |-> <<>>, leader_last |-> None]

\* data = {...}: one empty series record per key of the universe
InitialData(ps) ==
    [is_none |-> FALSE,
     timestamps |-> [i \in DOMAIN ps |-> ps[i].time],
     client_type |-> IF ps # <<>> THEN ps[1].type ELSE "unknown",
     brokers |-> [b \in AllBrokerKeys(ps) |-> EmptyBrokerData],
     topics |-> [t \in AllTopicKeys(ps) |->
                    [k \in {q \in AllPartitionKeys(ps) : StartsWith(q, t)} |->
                        EmptyPartitionData]]]

\* time_delta = stats.time - last_time if last_time and stats.time > last_time else 1
TimeDelta(time, last_time) ==
    IF last_time # 0 /\ time > last_time THEN time - last_time ELSE 1

\* Mutant: a counter that went down yields a negative delta
CounterDeltaSigned(current, last) ==
    IF last # None THEN current - last ELSE 0

\* rx_delta = current - last if last is not None and current >= last else 0
CounterDelta(current, last) ==
    IF last # None /\ current >= last THEN current - last ELSE 0

\* Mutant: nothing is appended for a broker absent from the snapshot
BrokerStepSkipAbsent(b_data, stats, b_key, time_delta) ==
    IF b_key \notin DOMAIN stats.brokers THEN b_data
    ELSE LET broker == stats.brokers[b_key]
         IN [b_data EXCEPT
               !.rtt = Append(@, IF broker.rtt_avg # None
                                 THEN Ratio(broker.rtt_avg, 1000) ELSE NaN),
               !.state = Append(@, StateMap(broker.state)),
               !.throttle = Append(@, IF broker.throttle_avg # None
                                      THEN Ratio(broker.throttle_avg, 1000) ELSE NaN),
               !.connects = Append(@, Num(broker.connects)),
               !.disconnects = Append(@, Num(broker.disconnects)),
               !.rxerrs = Append(@, Num(broker.rxerrs)),
               !.txerrs = Append(@, Num(broker.txerrs)),
               !.rx_rate = Append(@, Ratio(CounterDelta(broker.rxbytes, b_data.last_rxbytes),
                                           time_delta * MiB)),
               !.last_rxbytes = broker.rxbytes,
               !.tx_rate = Append(@, Ratio(CounterDelta(broker.txbytes, b_data.last_txbytes),
                                           time_delta * MiB)),
               !.last_txbytes = broker.txbytes]

\* the body of "for b_key in all_broker_keys" for one broker
BrokerStep(b_data, stats, b_key, time_delta) ==
    LET present == b_key \in DOMAIN stats.brokers
        broker == stats.brokers[b_key]
        current_rx == IF present THEN broker.rxbytes ELSE 0
        current_tx == IF present THEN broker.txbytes ELSE 0
    IN [rtt |-> Append(b_data.rtt,
                   IF present /\ broker.rtt_avg # None
                   THEN Ratio(broker.rtt_avg, 1000) ELSE NaN),
        state |-> Append(b_data.state,
                   IF present THEN StateMap(broker.state) ELSE NaN),
        throttle |-> Append(b_data.throttle,
                   IF present /\ broker.throttle_avg # None
                   THEN Ratio(broker.throttle_avg, 1000) ELSE NaN),
        connects |-> Append(b_data.connects,
                   IF present THEN Num(broker.connects) ELSE NaN),
        disconnects |-> Append(b_data.disconnects,
                   IF present THEN Num(broker.disconnects) ELSE NaN),
        rxerrs |-> Append(b_data.rxerrs,
                   IF present THEN Num(broker.rxerrs) ELSE NaN),
        txerrs |-> Append(b_data.txerrs,
                   IF present THEN Num(broker.txerrs) ELSE NaN),
        rx_rate |-> Append(b_data.rx_rate,
                   Ratio(CounterDelta(current_rx, b_data.last_rxbytes),
                         time_delta * MiB)),
        last_rxbytes |-> current_rx,
        tx_rate |-> Append(b_data.tx_rate,
                   Ratio(CounterDelta(current_tx, b_data.last_txbytes),
                         time_delta * MiB)),
        last_txbytes |-> current_tx]

\* Mutant: a sentinel value is turned into a gap marker at build time
PartitionStepSentinelAsGap(p_data, stats, t_key, p_key) ==
    LET p_id_str == RsplitLast(p_key)
        present == /\ t_key \in DOMAIN stats.topics
                   /\ p_id_str \in DOMAIN stats.topics[t_key].partitions
        part == stats.topics[t_key].partitions[p_id_str]
        Entry(n) == IF n \in {-1, -1001} THEN NaN ELSE Num(n)
    IN [lag |-> Append(p_data.lag,
                   IF present THEN Entry(part.consumer_lag) ELSE NaN),
        lag_stored |-> Append(p_data.lag_stored,
                   IF present THEN Entry(part.consumer_lag_stored) ELSE NaN),
        committed |-> Append(p_data.committed,
                   IF present THEN Entry(part.committed_offset) ELSE NaN),
        stored |-> Append(p_data.stored,
                   IF present THEN Entry(part.stored_offset) ELSE NaN),
        leader_epoch |-> Append(p_data.leader_epoch,
                   IF present THEN Entry(part.committed_leader_epoch) ELSE NaN),
        leader_last |->
            IF present /\ part.leader # None /\ part.leader # -1
            THEN part.leader ELSE p_data.leader_last]

\* the body of "for p_key in data['topics'][t_key]" for one series key
PartitionStep(p_data, stats, t_key, p_key) ==
    LET p_id_str == RsplitLast(p_key)
        present == /\ t_key \in DOMAIN stats.topics
                   /\ p_id_str \in DOMAIN stats.topics[t_key].partitions
        part == stats.topics[t_key].partitions[p_id_str]
    IN [lag |-> Append(p_data.lag,
                   IF present THEN Num(part.consumer_lag) ELSE NaN),
        lag_stored |-> Append(p_data.lag_stored,
                   IF present THEN Num(part.consumer_lag_stored) ELSE NaN),
        committed |-> Append(p_data.committed,
                   IF present THEN Num(part.committed_offset) ELSE NaN),
        stored |-> Append(p_data.stored,
                   IF present THEN Num(part.stored_offset) ELSE NaN),
        leader_epoch |-> Append(p_data.leader_epoch,
                   IF present THEN Num(part.committed_leader_epoch) ELSE NaN),
        leader_last |->
            IF present /\ part.leader # None /\ part.leader # -1
            THEN part.leader ELSE p_data.leader_last]

\* one iteration of "for stats in plottable_stats"
SnapshotStep(d, stats, last_time) ==
    LET time_delta == TimeDelta(stats.time, last_time)
    IN [d EXCEPT
          !.brokers = [b \in DOMAIN d.brokers |->
                          BrokerStep(d.brokers[b], stats, b, time_delta)],
          !.topics = [t \in DOMAIN d.topics |->
                          [k \in DOMAIN d.topics[t] |->
                              PartitionStep(d.topics[t][k], stats, t, k)]]]

\* the loop from snapshot i on; last_time = stats.time closes each iteration
RECURSIVE BuildLoop(_, _, _, _)
BuildLoop(d, ps, i, last_time) ==
    IF i > Len(ps) THEN d
    ELSE BuildLoop(SnapshotStep(d, ps[i], last_time), ps, i + 1, ps[i].time)

NoBundle ==
    [is_none |-> TRUE, timestamps |-> <<>>, client_type |-> "unknown",
     brokers |-> EmptyMap, topics |-> EmptyMap]

\* Mutant: the threshold is off by one
InsufficientDataOffByOne(h) == Len(h) < 1

\* if len(self.stats_history) < 2: return None
InsufficientData(h) == Len(h) < 2

TimeSeriesData(h) ==
    IF InsufficientData(h) THEN NoBundle
    ELSE LET ps == Plottable(h)
         IN BuildLoop(InitialData(ps), ps, 1,
                      IF ps # <<>> THEN ps[1].time ELSE 0)

----------------------------------------------------------------------------
(* Diagnostics: _series_stats, _write_plot_debug, plot_data's legend label *)

Abs(n) == IF n >= 0 THEN n ELSE -n

\* v == c, for a series entry v and an integer c
EqualsInt(v, c) == ~v.nan /\ v.num = c * v.den

\* a <= b, for two numbers
Leq(a, b) == a.num * b.den <= b.num * a.den

\* a == b, for two numbers
SameNumber(a, b) == a.num * b.den = b.num * a.den

\* Mutant: only -1 is a sentinel
IsNotAssignedMinusOne(v) == EqualsInt(v, -1)

\* v == -1 or v == -1001
IsNotAssigned(v) == EqualsInt(v, -1) \/ EqualsInt(v, -1001)

\* Mutant: only the gap marker is excluded
IsValidNotNaN(v) == ~v.nan

\* v is not None and not np.isnan(v) and v != -1 and v != -1001
IsValid(v) == ~v.nan /\ ~EqualsInt(v, -1) /\ ~EqualsInt(v, -1001)

\* np.allclose(a, b, equal_nan=False): |a - b| <= atol + rtol * |b| with
\* rtol = 1e-05 and atol = 1e-08; both sides are scaled by 1e8 * a.den * b.den
AllClose(a, b) ==
    Abs(a.num * b.den - b.num * a.den)
        <= (a.den * b.den + 1000 * Abs(b.num) * a.den) \div 100000000

ValidIdx(vs) == {i \in DOMAIN vs : IsValid(vs[i])}

NoStats ==
    [total |-> 0, valid |-> 0, first_idx |-> None, last_idx |-> None,
     min |-> None, max |-> None, constant |-> "None", not_assigned |-> 0]

\* the record _series_stats makes of one series; indices are 0-based and
\* constant is "True", "False" or "None"
SeriesStats(vs) ==
    LET valid_idx == ValidIdx(vs)
        not_assigned_count == Cardinality({i \in DOMAIN vs : IsNotAssigned(vs[i])})
        vmin == vs[CHOOSE i \in valid_idx : \A j \in valid_idx : Leq(vs[i], vs[j])]
        vmax == vs[CHOOSE i \in valid_idx : \A j \in valid_idx : Leq(vs[j], vs[i])]
    IN IF valid_idx # {}
       THEN [total |-> Len(vs),
             valid |-> Cardinality(valid_idx),
             first_idx |-> (CHOOSE i \in valid_idx : \A j \in valid_idx : i <= j) - 1,
             last_idx |-> (CHOOSE i \in valid_idx : \A j \in valid_idx : j <= i) - 1,
             min |-> vmin,
             max |-> vmax,
             constant |-> IF AllClose(vmin, vmax) THEN "True" ELSE "False",
             not_assigned |-> not_assigned_count]
       ELSE [NoStats EXCEPT !.total = Len(vs),
                            !.not_assigned = not_assigned_count]

\* Mutant: a sentinel is written as the number it is
CsvCellNoToken(v) ==
    IF v.nan THEN [text |-> "", v |-> NaN]
    ELSE [text |-> "str(v)", v |-> v]

\* the cell _write_plot_debug writes for one entry: empty, the token, or
\* str(v), the digits of v
CsvCell(v) ==
    IF v.nan THEN [text |-> "", v |-> NaN]
    ELSE IF EqualsInt(v, -1) \/ EqualsInt(v, -1001)
         THEN [text |-> "Not Assigned", v |-> NaN]
    ELSE [text |-> "str(v)", v |-> v]

\* the series' cells of "for i, ts in enumerate(timestamps)", n timestamps
CsvColumn(n, vs) == [i \in 1..n |-> CsvCell(vs[i])]

\* which of its three summary lines _write_plot_debug writes for a series
SummaryLine(vs) ==
    LET s == SeriesStats(vs)
    IN IF s.not_assigned = Len(vs) THEN "All points = Not Assigned"
       ELSE IF s.not_assigned > 0 /\ s.valid > 0 THEN "with not_assigned"
       ELSE "without not_assigned"

\* which legend label plot_data gives a series
LegendLabel(vs, with_counts) ==
    LET valid_points == SelectSeq(vs, IsValid)
        not_assigned_count == Cardinality({i \in DOMAIN vs : IsNotAssigned(vs[i])})
        all_not_assigned == not_assigned_count = Len(vs)
    IN IF ~with_counts THEN "name"
       ELSE IF all_not_assigned THEN "(Not Assigned)"
       ELSE IF /\ Len(valid_points) > 0
               /\ \A i \in DOMAIN valid_points :
                     SameNumber(valid_points[i], valid_points[1])
            THEN "(data points, constant)"
       ELSE "(data points)"

\* no plot was made
NoPlot == [d_map |-> <<>>, label |-> <<>>, stats |-> <<>>, csv |-> <<>>,
           summary |-> <<>>]

\* the 'Broker State' entry of broker_plots as the loop of generate_graphs
\* handles it: the show_empty filter, plot_data's legend labels, the
\* annotation's _series_stats, and _write_plot_debug's CSV and summary
BrokerStatePlot(d, debug, show_empty, legend_valid, annotate) ==
    LET all_series == [k \in DOMAIN d.brokers |-> d.brokers[k].state]
        kept == IF show_empty THEN DOMAIN all_series
                ELSE {k \in DOMAIN all_series :
                        \E i \in DOMAIN all_series[k] : ~all_series[k][i].nan}
        d_map == [k \in kept |-> all_series[k]]
    IN [d_map |-> d_map,
        label |-> [k \in kept |-> LegendLabel(d_map[k], legend_valid)],
        stats |-> IF annotate THEN [k \in kept |-> SeriesStats(d_map[k])]
                  ELSE <<>>,
        csv |-> IF debug
                THEN [k \in kept |-> CsvColumn(Len(d.timestamps), d_map[k])]
                ELSE <<>>,
        summary |-> IF debug THEN [k \in kept |-> SummaryLine(d_map[k])]
                    ELSE <<>>]

----------------------------------------------------------------------------
(* Input files *)

B1 == "host:9092/1"
B2 == "host:9092/bootstrap"
T == <<"t">>
T1 == <<"t", "1">>
P0 == <<"0">>
P1 == <<"1">>
PNone == <<"-", "1">>

TsValues == {None, 1}
TimeValues == {None} \cup 0..MaxTime

\* Raw broker and partition records; i tags the record with the position
\* of its snapshot in the file.
BrokerStates == <<"INIT", "UP", "DOWN", "DOWN", "TRY_CONNECT">>

RawBroker(i) ==
    [state |-> BrokerStates[(i % Len(BrokerStates)) + 1], connects |-> i,
     rxbytes |-> i, txbytes |-> MaxSnap + 1 - i]
RawLogical(i) == [source |-> "logical", connects |-> i]
RawPartition(n, i) == [partition |-> n, consumer_lag |-> i, committed_offset |-> i]
RawUnassigned == [partition |-> -1]

ShapeIds == {"b", "bt", "t", "u"}

RawBrokers(shape, i) ==
    CASE shape = "b" -> (B1 :> RawBroker(i))
      [] shape = "bt" -> (B2 :> RawLogical(i))
      [] shape = "t" -> (B2 :> RawBroker(i))
      [] OTHER -> EmptyMap

RawTopics(shape, i) ==
    CASE shape = "bt" -> (T :> [partitions |-> (P0 :> RawPartition(0, i))])
      [] shape = "t" -> (T :> [partitions |-> (P1 :> RawPartition(1, i))])
      [] shape = "u" -> (T1 :> [partitions |-> (P1 :> RawPartition(1, i))
                                                @@ (PNone :> RawUnassigned)])
      [] OTHER -> EmptyMap

RawObject(ts, time, shape, i) ==
    [kind |-> "object", ts |-> ts, time |-> time, type |-> "consumer",
     brokers_is_map |-> TRUE, brokers |-> RawBrokers(shape, i),
     topics |-> RawTopics(shape, i), elems |-> <<>>]

RawArray(elems) == [NoRaw EXCEPT !.kind = "array", !.elems = elems]

\* malformed values: a non-object value, an object whose brokers field is no
\* mapping, an object whose ts is a string
RawScalar == [NoRaw EXCEPT !.kind = "scalar"]
RawBadBrokers == [RawObject(None, 1, "u", 0) EXCEPT !.brokers_is_map = FALSE]
RawStrTs == RawObject(StrTs, 1, "b", 0)

\* Files holding one array, or one object, of well-formed snapshots.  The
\* ts and time of every snapshot are free; the shapes of the snapshots of a
\* file follow one of the cycles below.
Stamps == TsValues \X TimeValues

ShapeCycles ==
    {<<"b", "bt", "t", "u">>, <<"u", "bt", "bt", "b">>,
     <<"t", "b", "b", "bt">>, <<"bt", "t", "u", "t">>}

ShapeAt(cycle, i) == cycle[((i - 1) % Len(cycle)) + 1]

SnapshotLists == UNION {[1..n -> Stamps] : n \in 0..MaxSnap}

RawOfList(l, cycle) ==
    [i \in DOMAIN l |-> RawObject(l[i][1], l[i][2], ShapeAt(cycle, i), i)]

ArrayFiles ==
    {<<ValCell(RawArray(RawOfList(l, c))), EndCell>> :
        l \in SnapshotLists, c \in ShapeCycles}
    \cup {<<ValCell(RawObject(st[1], st[2], sh, 1)), EndCell>> :
            st \in Stamps, sh \in ShapeIds}

\* Files holding a sequence of values, whitespace and junk
Items == {"ws", "junk", "obj0", "obj1", "scalar", "badbrokers", "strts"}

ItemCells(it) ==
    CASE it = "ws" -> <<WsCell>>
      [] it = "junk" -> <<JunkCell>>
      [] it = "obj0" -> <<ValCell(RawObject(1, 0, "b", 0)), EndCell>>
      [] it = "obj1" -> <<ValCell(RawObject(None, 1, "bt", 1)), EndCell>>
      [] it = "scalar" -> <<ValCell(RawScalar), EndCell>>
      [] it = "badbrokers" -> <<ValCell(RawBadBrokers), EndCell>>
      [] OTHER -> <<ValCell(RawStrTs), EndCell>>

RECURSIVE Flatten(_)
Flatten(items) ==
    IF items = <<>> THEN <<>> ELSE ItemCells(Head(items)) \o Flatten(Tail(items))

\* whitespace runs are one character long
ItemLists ==
    {l \in UNION {[1..n -> Items] : n \in 0..MaxItems} :
        \A i \in 1..(Len(l) - 1) : ~(l[i] = "ws" /\ l[i + 1] = "ws")}

StreamFiles == {Flatten(l) : l \in ItemLists}

\* Files holding one array of possibly malformed values
MalformedArrayFiles ==
    {<<ValCell(RawArray([i \in DOMAIN l |-> ItemCells(l[i])[1].v])), EndCell>> :
        l \in UNION {[1..n -> Items \ {"ws", "junk"}] : n \in 1..2}}

----------------------------------------------------------------------------
(* The program: main() constructs the parser, prints, graphs *)

Init ==
    /\ \/ file_exists = TRUE
          /\ content \in ArrayFiles \cup StreamFiles \cup MalformedArrayFiles
       \/ file_exists = FALSE /\ content = <<>>
    /\ pc = "start"
    /\ pos = 0
    /\ history = <<>>
    /\ stats_history = <<>>
    /\ out = {}
    /\ exc = "none"
    /\ data = NoBundle
    /\ charted = FALSE
    /\ state_plot = NoPlot
    /\ values = <<>>
    /\ show_valid = FALSE
    /\ label = "none"
    /\ series_stats = NoStats
    /\ summary = "none"
    /\ csv = <<>>
    /\ dstep = "idle"

\* except FileNotFoundError: print(...); return []
LoadFileNotFound ==
    /\ pc = "start" /\ ~file_exists
    /\ out' = out \cup {"FileNotFound"}
    /\ stats_history' = <<>>
    /\ pc' = "constructed"
    /\ UNCHANGED <<file_exists, content, pos, history, exc, data, charted, state_plot>>
    /\ UNCHANGED diagvars

\* content = f.read()
LoadRead ==
    /\ pc = "start" /\ file_exists
    /\ pc' = "parse"
    /\ UNCHANGED <<file_exists, content, pos, history, stats_history, out, exc,
                   data, charted, state_plot>>
    /\ UNCHANGED diagvars

\* json.loads(content) succeeds and every element is viewed
ParseWhole ==
    /\ pc = "parse" /\ LoadsOk(content)
    /\ LET raws == RawList(Loads(content))
       IN /\ \A i \in DOMAIN raws : ~InitRaises(raws[i])
          /\ history' = [i \in DOMAIN raws |-> RdKafkaStats(raws[i])]
    /\ pc' = "dedup"
    /\ UNCHANGED <<file_exists, content, pos, stats_history, out, exc, data,
                   charted, state_plot>>
    /\ UNCHANGED diagvars

\* json.loads(content) succeeds and RdKafkaStats(...) raises on an element
ParseWholeRaises ==
    /\ pc = "parse" /\ LoadsOk(content)
    /\ LET raws == RawList(Loads(content))
           bad == CHOOSE i \in DOMAIN raws :
                     InitRaises(raws[i]) /\ \A j \in 1..(i - 1) : ~InitRaises(raws[j])
       IN /\ \E i \in DOMAIN raws : InitRaises(raws[i])
          /\ history' = [i \in 1..(bad - 1) |-> RdKafkaStats(raws[i])]
    /\ exc' = "AttributeError"
    /\ pc' = "crashed"
    /\ UNCHANGED <<file_exists, content, pos, stats_history, out, data, charted, state_plot>>
    /\ UNCHANGED diagvars

\* except json.JSONDecodeError: decoder = ...; pos = 0
ParseWholeFails ==
    /\ pc = "parse" /\ ~LoadsOk(content)
    /\ pos' = 0
    /\ pc' = "fallback"
    /\ UNCHANGED <<file_exists, content, history, stats_history, out, exc, data,
                   charted, state_plot>>
    /\ UNCHANGED diagvars

\* pos += (len(content_stripped) - len(content_stripped[read_len:]))
Advance(p, content_stripped, read_len) ==
    p + (Len(content_stripped) - Len(From(content_stripped, read_len)))

\* one iteration of the fallback loop that decodes a value and views it
FallbackDecode ==
    /\ pc = "fallback" /\ pos < Len(content)
    /\ LET content_stripped == Lstrip(From(content, pos))
           r == RawDecode(content_stripped)
       IN /\ content_stripped # <<>>
          /\ CanDecode(content_stripped)
          /\ ~InitRaises(r.obj)
          /\ history' = Append(history, RdKafkaStats(r.obj))
          /\ pos' = Advance(pos, content_stripped, r.read_len)
    /\ UNCHANGED <<file_exists, content, pc, stats_history, out, exc, data,
                   charted, state_plot>>
    /\ UNCHANGED diagvars

\* one iteration of the fallback loop in which RdKafkaStats(obj) raises
FallbackRaises ==
    /\ pc = "fallback" /\ pos < Len(content)
    /\ LET content_stripped == Lstrip(From(content, pos))
       IN /\ content_stripped # <<>>
          /\ CanDecode(content_stripped)
          /\ InitRaises(RawDecode(content_stripped).obj)
    /\ exc' = "AttributeError"
    /\ pc' = "crashed"
    /\ UNCHANGED <<file_exists, content, pos, history, stats_history, out, data,
                   charted, state_plot>>
    /\ UNCHANGED diagvars

\* the fallback loop ends: pos >= len(content), nothing but whitespace is
\* left, or raw_decode raises JSONDecodeError
FallbackBreak ==
    /\ pc = "fallback"
    /\ \/ pos >= Len(content)
       \/ Lstrip(From(content, pos)) = <<>>
       \/ ~CanDecode(Lstrip(From(content, pos)))
    /\ pc' = "dedup"
    /\ UNCHANGED <<file_exists, content, pos, history, stats_history, out, exc,
                   data, charted, state_plot>>
    /\ UNCHANGED diagvars

\* history.sort(...) raises TypeError
DedupSortRaises ==
    /\ pc = "dedup" /\ SortRaises(history)
    /\ exc' = "TypeError"
    /\ pc' = "crashed"
    /\ UNCHANGED <<file_exists, content, pos, history, stats_history, out, data,
                   charted, state_plot>>
    /\ UNCHANGED diagvars

\* sort, deduplicate, re-sort, report, return deduplicated
Dedup ==
    /\ pc = "dedup" /\ ~SortRaises(history)
    /\ history' = SortByTs(history)
    /\ stats_history' = DedupStep(history)
    /\ out' = IF Len(DedupStep(history)) < Len(history)
              THEN out \cup {"Deduplicated"} ELSE out
    /\ pc' = "constructed"
    /\ UNCHANGED <<file_exists, content, pos, exc, data, charted, state_plot>>
    /\ UNCHANGED diagvars

\* if not stats_parser.stats_history: return
MainReturnEmpty ==
    /\ pc = "constructed" /\ stats_history = <<>>
    /\ pc' = "done"
    /\ UNCHANGED <<file_exists, content, pos, history, stats_history, out, exc,
                   data, charted, state_plot>>
    /\ UNCHANGED diagvars

\* stats_parser.print_summary()
PrintSummary ==
    /\ pc = "constructed" /\ stats_history # <<>>
    /\ out' = out \cup {"Summary"}
    /\ pc' = "summarised"
    /\ UNCHANGED <<file_exists, content, pos, history, stats_history, exc, data,
                   charted, state_plot>>
    /\ UNCHANGED diagvars

\* if args.graph: false
MainNoGraph ==
    /\ pc = "summarised"
    /\ pc' = "done"
    /\ UNCHANGED <<file_exists, content, pos, history, stats_history, out, exc,
                   data, charted, state_plot>>
    /\ UNCHANGED diagvars

\* generate_graphs: data = self._get_time_series_data()
GetTimeSeriesData ==
    /\ pc = "summarised"
    /\ data' = TimeSeriesData(stats_history)
    /\ pc' = "graphing"
    /\ UNCHANGED <<file_exists, content, pos, history, stats_history, out, exc,
                   charted, state_plot>>
    /\ UNCHANGED diagvars

\* if not data: print("Not enough data points to generate graphs."); return
GenerateGraphsSkip ==
    /\ pc = "graphing" /\ data.is_none
    /\ out' = out \cup {"NotEnoughData"}
    /\ pc' = "done"
    /\ UNCHANGED <<file_exists, content, pos, history, stats_history, exc, data,
                   charted, state_plot>>
    /\ UNCHANGED diagvars

\* the rest of generate_graphs: the charts are drawn and saved
GenerateGraphsChart ==
    /\ pc = "graphing" /\ ~data.is_none
    /\ \E debug \in BOOLEAN, show_empty \in BOOLEAN,
          legend_valid \in BOOLEAN, annotate \in BOOLEAN :
          state_plot' = BrokerStatePlot(data, debug, show_empty, legend_valid,
                                        annotate)
    /\ charted' = TRUE
    /\ out' = out \cup {"Graphs"}
    /\ pc' = "done"
    /\ UNCHANGED <<file_exists, content, pos, history, stats_history, exc, data>>
    /\ UNCHANGED diagvars

Next ==
    \/ LoadFileNotFound
    \/ LoadRead
    \/ ParseWhole
    \/ ParseWholeRaises
    \/ ParseWholeFails
    \/ FallbackDecode
    \/ FallbackRaises
    \/ FallbackBreak
    \/ DedupSortRaises
    \/ Dedup
    \/ MainReturnEmpty
    \/ PrintSummary
    \/ MainNoGraph
    \/ GetTimeSeriesData
    \/ GenerateGraphsSkip
    \/ GenerateGraphsChart

Spec == Init /\ [][Next]_vars

----------------------------------------------------------------------------
(* The diagnostics of one plot, applied to one series: generate_graphs calls *)
(* plot_data, then _series_stats for the annotation, then _write_plot_debug  *)

mainvars == <<file_exists, content, pc, pos, history, stats_history, out, exc,
              data, charted, state_plot>>

\* Entries of a series: the gap marker, the two sentinels, counts, offsets,
\* and -1000 / 1000 (an rtt of -1000 microseconds, in ms)
SeriesValues ==
    {NaN, Num(-1), Num(-1001), Num(0), Num(5), Num(100000), Num(100001),
     Ratio(-1000, 1000)}

SeriesInputs == UNION {[1..n -> SeriesValues] : n \in 0..MaxPoints}

InitDiag ==
    /\ file_exists = FALSE /\ content = <<>>
    /\ pc = "diagnostics"
    /\ pos = 0
    /\ history = <<>>
    /\ stats_history = <<>>
    /\ out = {}
    /\ exc = "none"
    /\ data = NoBundle
    /\ charted = FALSE
    /\ state_plot = NoPlot
    /\ values \in SeriesInputs
    /\ show_valid \in BOOLEAN
    /\ label = "none"
    /\ series_stats = NoStats
    /\ summary = "none"
    /\ csv = <<>>
    /\ dstep = "plot"

\* plot_data(ax, title, ylabel, d_map, ..., show_valid=legend_valid, ...)
PlotData ==
    /\ dstep = "plot"
    /\ label' = LegendLabel(values, show_valid)
    /\ dstep' = "annotate"
    /\ UNCHANGED <<values, show_valid, series_stats, summary, csv>>
    /\ UNCHANGED mainvars

\* stats_display = self._series_stats(d_map)
Annotate ==
    /\ dstep = "annotate"
    /\ series_stats' = SeriesStats(values)
    /\ dstep' = "debug"
    /\ UNCHANGED <<values, show_valid, label, summary, csv>>
    /\ UNCHANGED mainvars

\* self._write_plot_debug(title, timestamps, d_map, ...)
WritePlotDebug ==
    /\ dstep = "debug"
    /\ csv' = CsvColumn(Len(values), values)
    /\ summary' = SummaryLine(values)
    /\ dstep' = "done"
    /\ UNCHANGED <<values, show_valid, label, series_stats>>
    /\ UNCHANGED mainvars

NextDiag ==
    \/ PlotData
    \/ Annotate
    \/ WritePlotDebug

SpecDiag == InitDiag /\ [][NextDiag]_vars

----------------------------------------------------------------------------
(* Properties of the loader/deduplicator *)

\* _load_stats has returned: history is the sorted pre-deduplication list,
\* stats_history the list it returned
Loaded == pc \in {"constructed", "summarised", "graphing", "done"}

InputsAt(time) == {i \in DOMAIN history : history[i].time = time}
RetainedAt(time) == {k \in DOMAIN stats_history : stats_history[k].time = time}
InputTimes == {history[i].time : i \in DOMAIN history} \ {None}

\* C1: the sequence returned by _load_stats is strictly increasing in
\* epoch_seconds (time): sorted ascending, no two retained snapshots share it.
C1_StrictlyIncreasing ==
    \A i, j \in DOMAIN stats_history :
        i < j => stats_history[i].time < stats_history[j].time

\* C1 witness: duplicates were merged and the pre-deduplication order (by ts)
\* is not the order of time, so the final sort had to reorder the anchors.
C1_Witness ==
    /\ Loaded /\ Len(stats_history) >= 2
    /\ Len(history) > Len(stats_history)
    /\ \E i, j \in DOMAIN history :
          /\ i < j /\ history[j].time # None
          /\ history[i].time > history[j].time

KeySet(st) ==
    [brokers |-> DOMAIN st.brokers,
     topics |-> [t \in DOMAIN st.topics |-> DOMAIN st.topics[t].partitions]]

Orders(n) ==
    {f \in [1..n -> 1..n] : \A a, b \in 1..n : f[a] = f[b] => a = b}

\* C2: for every time T of the input, the one retained snapshot for T holds
\* exactly the union of the broker ids, topic names and per-topic partition
\* ids of the input snapshots at T, whatever the order of the input.
C2_KeySetIsUnion ==
    Loaded =>
      /\ \A time \in InputTimes :
            /\ Cardinality(RetainedAt(time)) = 1
            /\ LET r == stats_history[CHOOSE k \in RetainedAt(time) : TRUE]
                   ins == InputsAt(time)
               IN /\ DOMAIN r.brokers = UNION {DOMAIN history[i].brokers : i \in ins}
                  /\ DOMAIN r.topics = UNION {DOMAIN history[i].topics : i \in ins}
                  /\ \A t \in DOMAIN r.topics :
                        DOMAIN r.topics[t].partitions =
                          UNION {DOMAIN history[i].topics[t].partitions :
                                   i \in {x \in ins : t \in DOMAIN history[x].topics}}
      /\ pc = "constructed" =>    \* history never changes afterwards
            \A f \in Orders(Len(history)) :
               LET other == DedupStep([i \in DOMAIN history |-> history[f[i]]])
               IN [k \in DOMAIN other |-> KeySet(other[k])]
                    = [k \in DOMAIN stats_history |-> KeySet(stats_history[k])]

\* C2 witness: a retained snapshot holds more brokers than any one input at
\* its time, and a topic of it more partitions than any one input.
C2_Witness ==
    /\ Loaded
    /\ \E k \in DOMAIN stats_history :
          LET r == stats_history[k]
              ins == InputsAt(r.time)
          IN /\ \A i \in ins : DOMAIN history[i].brokers # DOMAIN r.brokers
             /\ \E t \in DOMAIN r.topics :
                   /\ \E i \in ins : t \notin DOMAIN history[i].topics
                   /\ \A i \in ins :
                         t \in DOMAIN history[i].topics =>
                           DOMAIN history[i].topics[t].partitions
                             # DOMAIN r.topics[t].partitions

\* the first snapshot, in the pre-deduplication sort order, at this time
\* that satisfies Has
FirstAt(time, Has(_)) ==
    history[CHOOSE i \in InputsAt(time) :
               Has(history[i]) /\ \A j \in InputsAt(time) : Has(history[j]) => i <= j]

\* C3: merging never overwrites: for every broker id and every (topic,
\* partition id) of a retained snapshot, the value kept is the one of the
\* earliest snapshot, in the pre-deduplication sort order, that holds it.
C3_EarliestWins ==
    Loaded =>
      \A k \in DOMAIN stats_history :
        LET r == stats_history[k]
        IN /\ \A b \in DOMAIN r.brokers :
                LET HasB(st) == b \in DOMAIN st.brokers
                IN r.brokers[b] = FirstAt(r.time, HasB).brokers[b]
           /\ \A t \in DOMAIN r.topics :
                \A p \in DOMAIN r.topics[t].partitions :
                  LET HasP(st) == /\ t \in DOMAIN st.topics
                                  /\ p \in DOMAIN st.topics[t].partitions
                  IN r.topics[t].partitions[p]
                       = FirstAt(r.time, HasP).topics[t].partitions[p]

\* C3 witness: a broker and a partition are each held, with different
\* values, by two snapshots of one time of which the anchor is neither.
C3_Witness ==
    /\ Loaded
    /\ \E a, i, j \in DOMAIN history :
          /\ a < i /\ i < j
          /\ history[a].time # None
          /\ history[a].time = history[i].time /\ history[i].time = history[j].time
          /\ \E b \in DOMAIN history[i].brokers \cap DOMAIN history[j].brokers :
                /\ b \notin DOMAIN history[a].brokers
                /\ history[i].brokers[b] # history[j].brokers[b]
          /\ \E t \in DOMAIN history[i].topics \cap DOMAIN history[j].topics :
                /\ t \notin DOMAIN history[a].topics
                /\ \E p \in DOMAIN history[i].topics[t].partitions
                              \cap DOMAIN history[j].topics[t].partitions :
                      history[i].topics[t].partitions[p]
                        # history[j].topics[t].partitions[p]

\* the number of snapshots of h that the walk merges into an anchor
MergeCount(h) ==
    Cardinality({i \in DOMAIN h :
        h[i].time # None /\ \E j \in 1..(i - 1) : h[j].time = h[i].time})

\* C4: deduplication is idempotent: run on its own output, the step merges
\* nothing and returns the same snapshots, in the same order, unchanged.
C4_Idempotent ==
    Loaded =>
      /\ DedupStep(stats_history) = stats_history
      /\ MergeCount(SortByTs(stats_history)) = 0

\* C4 witness: the output came out of a merge, and is not in the order of ts,
\* so the second run's first sort reorders it.
C4_Witness ==
    /\ Loaded /\ "Deduplicated" \in out
    /\ \E i, j \in DOMAIN stats_history :
          i < j /\ TsKey(stats_history[i]) > TsKey(stats_history[j])

\* C5: a snapshot without a timestamp is never returned and contributes no
\* broker, topic or partition: every retained snapshot has a time, every
\* entry of it comes from an input snapshot of that same time, and the
\* builder's timestamps are those of the whole loaded history.
C5_NoUntimedSnapshot ==
    Loaded =>
      /\ \A k \in DOMAIN stats_history :
            LET r == stats_history[k]
            IN /\ r.time # None
               /\ \A b \in DOMAIN r.brokers :
                     \E i \in InputsAt(r.time) :
                        /\ b \in DOMAIN history[i].brokers
                        /\ history[i].brokers[b] = r.brokers[b]
               /\ \A t \in DOMAIN r.topics :
                     /\ \E i \in InputsAt(r.time) : t \in DOMAIN history[i].topics
                     /\ \A p \in DOMAIN r.topics[t].partitions :
                           \E i \in InputsAt(r.time) :
                              /\ t \in DOMAIN history[i].topics
                              /\ p \in DOMAIN history[i].topics[t].partitions
                              /\ history[i].topics[t].partitions[p]
                                   = r.topics[t].partitions[p]
      /\ ~data.is_none =>
            /\ Len(data.timestamps) = Len(stats_history)
            /\ \A i \in DOMAIN data.timestamps : data.timestamps[i] # None

\* C5 witness: an untimed snapshot comes first in the sort order and holds a
\* broker and a topic that no timed snapshot of the file holds.
C5_Witness ==
    /\ Loaded /\ stats_history # <<>>
    /\ history[1].time = None
    /\ \E b \in DOMAIN history[1].brokers :
          \A i \in DOMAIN history :
             history[i].time # None => b \notin DOMAIN history[i].brokers
    /\ \E t \in DOMAIN history[1].topics :
          \A i \in DOMAIN history :
             history[i].time # None => t \notin DOMAIN history[i].topics

----------------------------------------------------------------------------
(* Properties of parsing and of error handling *)

\* C6: loading is permissive: whatever keys are missing and whatever fields
\* are wrongly typed, _load_stats and _get_time_series_data do not raise.
C6_NeverRaises == exc = "none"

\* every JSON value of the text is an object whose fields are mappings
ObjectsOnly(c) ==
    \A i \in DOMAIN c : c[i].k = "val" => ~InitRaises(c[i].v)

\* the complete JSON values, separated by optional whitespace, that precede
\* the first position where no complete value can be decoded
RECURSIVE PrefixValues(_)
PrefixValues(c) ==
    LET s == Lstrip(c)
    IN IF CanDecode(s) THEN <<s[1].v>> \o PrefixValues(From(s, 2)) ELSE <<>>

\* C7: when whole-input parsing fails, the sequential fallback recovers
\* exactly the maximal prefix of complete JSON values, separated by optional
\* whitespace (stated for texts whose values are all well-formed objects).
C7_FallbackRecoversPrefix ==
    (pc = "dedup" /\ ~LoadsOk(content) /\ ObjectsOnly(content)) =>
        history = [i \in DOMAIN PrefixValues(content) |->
                      RdKafkaStats(PrefixValues(content)[i])]

NoValueAnywhere(c) == \A i \in DOMAIN c : c[i].k # "val"

\* C8: when the file is missing or holds no parseable JSON value anywhere,
\* the failure is reported to the operator, the history is empty, nothing
\* is raised and neither the summary nor the graphs run.
C8_FailureReported ==
    (pc = "done" /\ (~file_exists \/ NoValueAnywhere(content))) =>
        /\ out # {}
        /\ stats_history = <<>>
        /\ exc = "none"
        /\ "Summary" \notin out
        /\ ~charted

----------------------------------------------------------------------------
(* Properties of the time-series builder *)

Timestamped(h) == Cardinality({i \in DOMAIN h : h[i].time # None})

\* C9: _get_time_series_data returns None exactly when the loaded history
\* has fewer than 2 timestamped snapshots; generate_graphs then prints its
\* message and draws nothing, and draws only when a bundle was returned.
C9_NoneIffFewerThanTwo ==
    /\ pc = "graphing" => (data.is_none <=> Timestamped(stats_history) < 2)
    /\ (pc = "done" /\ "NotEnoughData" \in out) =>
          /\ Timestamped(stats_history) < 2
          /\ data.is_none /\ ~charted /\ exc = "none"
    /\ (pc = "done" /\ charted) =>
          /\ Timestamped(stats_history) >= 2
          /\ ~data.is_none /\ "NotEnoughData" \notin out

\* C9 witness: a file of several timestamped snapshots that deduplicate to
\* one, for which graphing was asked and skipped with the message.
C9_Witness ==
    /\ pc = "done" /\ "NotEnoughData" \in out /\ "Deduplicated" \in out
    /\ Timestamped(history) >= 2

BundleBuilt == pc \in {"graphing", "done"} /\ ~data.is_none

BrokerSeries ==
    {"rtt", "state", "throttle", "connects", "disconnects", "rx_rate",
     "tx_rate", "rxerrs", "txerrs"}

PartitionSeries == {"lag", "lag_stored", "committed", "stored", "leader_epoch"}

\* C10: in every bundle, every per-broker and every per-partition series
\* has exactly one entry per timestamp, and entry i belongs to snapshot i.
C10_SeriesAligned ==
    BundleBuilt =>
      LET n == Len(data.timestamps)
      IN /\ n = Len(stats_history)
         /\ \A i \in 1..n : data.timestamps[i] = stats_history[i].time
         /\ \A b \in DOMAIN data.brokers :
               /\ \A m \in BrokerSeries : Len(data.brokers[b][m]) = n
               /\ \A i \in DOMAIN data.brokers[b].connects :
                     data.brokers[b].connects[i] =
                       IF i <= Len(stats_history) /\ b \in DOMAIN stats_history[i].brokers
                       THEN Num(stats_history[i].brokers[b].connects) ELSE NaN
         /\ \A t \in DOMAIN data.topics :
               \A k \in DOMAIN data.topics[t] :
                 /\ \A m \in PartitionSeries : Len(data.topics[t][k][m]) = n
                 /\ \A i \in DOMAIN data.topics[t][k].lag :
                       data.topics[t][k].lag[i] =
                         IF /\ i <= Len(stats_history)
                            /\ t \in DOMAIN stats_history[i].topics
                            /\ RsplitLast(k) \in DOMAIN stats_history[i].topics[t].partitions
                         THEN Num(stats_history[i].topics[t]
                                    .partitions[RsplitLast(k)].consumer_lag)
                         ELSE NaN

\* C10 witness: a bundle over at least two snapshots in which a broker and
\* a partition are each present in one snapshot and absent from another.
C10_Witness ==
    /\ BundleBuilt /\ Len(data.timestamps) >= 2
    /\ \E b \in DOMAIN data.brokers :
          \E i, j \in DOMAIN data.brokers[b].connects :
             data.brokers[b].connects[i] = NaN /\ data.brokers[b].connects[j] # NaN
    /\ \E t \in DOMAIN data.topics :
          \E k \in DOMAIN data.topics[t] :
             \E i, j \in DOMAIN data.topics[t][k].lag :
                data.topics[t][k].lag[i] = NaN /\ data.topics[t][k].lag[j] # NaN

\* the series keys of topic t that are built from t itself: f"{t}-{p_id}"
OwnKeys(t) ==
    {k \in DOMAIN data.topics[t] : k = PartitionKey(t, RsplitLast(k))}

BrokerPresent(b, i) == b \in DOMAIN stats_history[i].brokers

PartitionPresent(t, p, i) ==
    /\ t \in DOMAIN stats_history[i].topics
    /\ p \in DOMAIN stats_history[i].topics[t].partitions

\* C11: at every snapshot index at which a broker, or a partition, of the
\* universe is absent from the snapshot, every metric series of it, rx_rate
\* and tx_rate included, holds the gap marker.
C11_AbsentIsGap ==
    BundleBuilt =>
      /\ \A b \in DOMAIN data.brokers :
            \A i \in DOMAIN data.timestamps :
               ~BrokerPresent(b, i) =>
                  \A m \in BrokerSeries : data.brokers[b][m][i] = NaN
      /\ \A t \in DOMAIN data.topics :
            \A k \in OwnKeys(t) :
               \A i \in DOMAIN data.timestamps :
                  ~PartitionPresent(t, RsplitLast(k), i) =>
                     \A m \in PartitionSeries : data.topics[t][k][m][i] = NaN

\* broker b is in snapshots i - 1 and i, and its counter went down
CounterWentDown(b, i, counter) ==
    /\ i >= 2 /\ BrokerPresent(b, i - 1) /\ BrokerPresent(b, i)
    /\ stats_history[i].brokers[b][counter] < stats_history[i - 1].brokers[b][counter]

\* a series entry that is a number >= 0
NonNegative(v) == ~v.nan /\ v.den > 0 /\ v.num >= 0

\* C12: rate derivation never produces a negative value: every entry of
\* rx_rate and tx_rate is >= 0, and at a step where the counter is lower
\* than at the previous step the delta used is exactly 0.
C12_RatesNonNegative ==
    BundleBuilt =>
      \A b \in DOMAIN data.brokers :
         \A i \in DOMAIN data.timestamps :
            /\ NonNegative(data.brokers[b].rx_rate[i])
            /\ NonNegative(data.brokers[b].tx_rate[i])
            /\ CounterWentDown(b, i, "rxbytes") => data.brokers[b].rx_rate[i].num = 0
            /\ CounterWentDown(b, i, "txbytes") => data.brokers[b].tx_rate[i].num = 0

\* C12 witness: a bundle in which a broker's rxbytes went down between two
\* consecutive snapshots, and a broker's txbytes went down between two.
C12_Witness ==
    /\ BundleBuilt
    /\ \E b \in DOMAIN data.brokers :
          \E i \in DOMAIN data.timestamps : CounterWentDown(b, i, "rxbytes")
    /\ \E b \in DOMAIN data.brokers :
          \E i \in DOMAIN data.timestamps : CounterWentDown(b, i, "txbytes")

Max(a, b) == IF a >= b THEN a ELSE b

\* the entry v equals delta / max(elapsed, 1) / (1024 * 1024)
IsRate(v, delta, elapsed) ==
    ~v.nan /\ v.num * (Max(elapsed, 1) * MiB) = delta * v.den

\* the delta of a counter between snapshots i - 1 and i that both hold b
StepDelta(b, i, counter) ==
    LET current == stats_history[i].brokers[b][counter]
        previous == stats_history[i - 1].brokers[b][counter]
    IN IF current >= previous THEN current - previous ELSE 0

\* C13: from the second snapshot on, the rate at a snapshot is the counter
\* delta divided by max(elapsed_seconds, 1) and by 1024 * 1024, elapsed_seconds
\* being the time of the snapshot minus the time of the one before it,
\* whatever that earlier time is (0 included).
C13_RateDivisor ==
    BundleBuilt =>
      \A b \in DOMAIN data.brokers :
         \A i \in DOMAIN data.timestamps :
            (i >= 2 /\ BrokerPresent(b, i - 1) /\ BrokerPresent(b, i)) =>
               LET elapsed == data.timestamps[i] - data.timestamps[i - 1]
               IN /\ IsRate(data.brokers[b].rx_rate[i],
                            StepDelta(b, i, "rxbytes"), elapsed)
                  /\ IsRate(data.brokers[b].tx_rate[i],
                            StepDelta(b, i, "txbytes"), elapsed)

----------------------------------------------------------------------------
(* Properties of the diagnostics *)

Count(vs, Test(_)) == Cardinality({i \in DOMAIN vs : Test(vs[i])})

IsGap(v) == v.nan
IsSentinel(v) == ~v.nan /\ (v.num = -1 * v.den \/ v.num = -1001 * v.den)
IsData(v) == ~IsGap(v) /\ ~IsSentinel(v)

StatsMade == dstep \in {"debug", "done"}

\* C14: _series_stats never counts a sentinel as valid: valid is the number
\* of entries that are neither a gap marker nor -1 nor -1001, not_assigned
\* the number of entries equal to -1 or -1001, wherever they occur.
C14_SentinelsNotValid ==
    StatsMade =>
      /\ series_stats.total = Len(values)
      /\ series_stats.valid = Count(values, IsData)
      /\ series_stats.not_assigned = Count(values, IsSentinel)

\* C14 witness: a series holding data, a gap and both sentinels, the two
\* sentinels next to each other.
C14_Witness ==
    /\ StatsMade
    /\ series_stats.valid > 0 /\ Count(values, IsGap) > 0
    /\ \E i \in DOMAIN values :
          /\ i + 1 \in DOMAIN values
          /\ values[i] = Num(-1) /\ values[i + 1] = Num(-1001)

\* all entries of the series that are data are the same number
AllDataEqual(vs) ==
    \A i, j \in DOMAIN vs :
       (IsData(vs[i]) /\ IsData(vs[j])) => vs[i].num * vs[j].den = vs[j].num * vs[i].den

\* C15: for a series with at least one valid value, _series_stats reports
\* constant = true if and only if all valid values of the series are equal;
\* two different valid integers are never reported constant.
C15_ConstantIffAllEqual ==
    (StatsMade /\ series_stats.valid > 0) =>
       (series_stats.constant = "True" <=> AllDataEqual(values))

\* C16: a non-empty series whose entries are all sentinels is classified as
\* fully sentinel (valid = 0, not_assigned = total, constant not true,
\* summary line "Not Assigned"), and differs in that from a non-empty series
\* whose entries are all gap markers (not_assigned = 0, no such line).
C16_FullySentinel ==
    (dstep = "done" /\ values # <<>>) =>
       /\ Count(values, IsSentinel) = Len(values) =>
             /\ series_stats.valid = 0
             /\ series_stats.not_assigned = series_stats.total
             /\ series_stats.constant # "True"
             /\ summary = "All points = Not Assigned"
             /\ show_valid => label = "(Not Assigned)"
       /\ Count(values, IsGap) = Len(values) =>
             /\ series_stats.valid = 0
             /\ series_stats.not_assigned = 0
             /\ summary # "All points = Not Assigned"
             /\ label # "(Not Assigned)"

\* C16 witness: the diagnostics ran on a series of several sentinels, not all
\* the same, with the labelled legend.
C16_Witness ==
    /\ dstep = "done" /\ show_valid
    /\ Len(values) >= 2 /\ Count(values, IsSentinel) = Len(values)
    /\ \E i, j \in DOMAIN values : values[i] = Num(-1) /\ values[j] = Num(-1001)

----------------------------------------------------------------------------
(* Properties of the loader's sort order *)

\* the snapshots of a file that is one JSON value, in the order of the file
InputSnapshots ==
    LET raw == RawList(Loads(content))
    IN [i \in DOMAIN raw |-> RdKafkaStats(raw[i])]

\* C17: before deduplication the loader orders the snapshots by
\* epoch_seconds (time) ascending, a missing one as 0; hence among the
\* snapshots of one time the anchor is the first of them in the input,
\* whatever their ts.
C17_SortedByEpochSeconds ==
    (Loaded /\ LoadsOk(content)) =>
       LET input == InputSnapshots
       IN /\ history = SortByTime(input)
          /\ \A k \in DOMAIN stats_history :
                LET r == stats_history[k]
                    same == {i \in DOMAIN input : input[i].time = r.time}
                    first == input[CHOOSE i \in same : \A j \in same : i <= j]
                IN /\ r.ts = first.ts
                   /\ \A b \in DOMAIN first.brokers : r.brokers[b] = first.brokers[b]
                   /\ \A t \in DOMAIN first.topics :
                         \A p \in DOMAIN first.topics[t].partitions :
                            r.topics[t].partitions[p] = first.topics[t].partitions[p]

----------------------------------------------------------------------------
(* Properties of the series keys and of the counters *)

\* the broker ids that are non-logical in at least one snapshot
ObservedBrokers ==
    {b \in UNION {DOMAIN stats_history[i].brokers : i \in DOMAIN stats_history} :
        \E i \in DOMAIN stats_history :
           /\ b \in DOMAIN stats_history[i].brokers
           /\ stats_history[i].brokers[b].source # "logical"}

ObservedTopics == UNION {DOMAIN stats_history[i].topics : i \in DOMAIN stats_history}

\* the partition ids that occur under topic t, with partition != -1, in at
\* least one snapshot
ObservedPartitions(t) ==
    {p \in UNION {DOMAIN stats_history[i].topics[t].partitions :
                    i \in {j \in DOMAIN stats_history : t \in DOMAIN stats_history[j].topics}} :
        \E i \in DOMAIN stats_history :
           /\ t \in DOMAIN stats_history[i].topics
           /\ p \in DOMAIN stats_history[i].topics[t].partitions
           /\ stats_history[i].topics[t].partitions[p].partition # -1}

\* C18: the series keys of a bundle are exactly the observed universe: one
\* broker entry per broker id that is non-logical in some snapshot, and under
\* each topic one entry per partition id observed under that same topic with
\* partition != -1, none for a partition observed only under another topic.
C18_KeysAreUniverse ==
    BundleBuilt =>
      /\ DOMAIN data.brokers = ObservedBrokers
      /\ DOMAIN data.topics = ObservedTopics
      /\ \A t \in DOMAIN data.topics :
            DOMAIN data.topics[t] = {PartitionKey(t, p) : p \in ObservedPartitions(t)}

\* the snapshots before i that hold broker b
SeenBefore(b, i) == {j \in 1..(i - 1) : BrokerPresent(b, j)}

\* the delta of a counter of b at snapshot i, from b's most recent observation
DeltaFromLastSeen(b, i, counter) ==
    LET last_seen == CHOOSE j \in SeenBefore(b, i) : \A k \in SeenBefore(b, i) : k <= j
        current == stats_history[i].brokers[b][counter]
        last == stats_history[last_seen].brokers[b][counter]
    IN IF current >= last THEN current - last ELSE 0

\* C19: per broker the builder keeps the byte counter of the broker's most
\* recent observation: where the broker is present and was observed before,
\* the delta is current minus that counter (0 if current is lower), also
\* when the broker was absent from snapshots in between.
C19_LastObservedCounter ==
    BundleBuilt =>
      \A b \in DOMAIN data.brokers :
         \A i \in DOMAIN data.timestamps :
            (BrokerPresent(b, i) /\ SeenBefore(b, i) # {}) =>
               /\ data.brokers[b].rx_rate[i].num = DeltaFromLastSeen(b, i, "rxbytes")
               /\ data.brokers[b].tx_rate[i].num = DeltaFromLastSeen(b, i, "txbytes")

----------------------------------------------------------------------------
(* Properties of the sentinels in the bundle *)

\* C20: the builder preserves sentinels verbatim: for a partition present in
\* snapshot i, entry i of its lag, lag_stored, committed, stored and
\* leader_epoch series is the snapshot's field value, -1 and -1001 included;
\* a field missing from the raw record (in the input files: lag_stored,
\* stored offset and leader epoch) appears as its default sentinel, not as a
\* gap marker.
C20_SentinelsVerbatim ==
    BundleBuilt =>
      \A t \in DOMAIN data.topics :
         \A k \in OwnKeys(t) :
            \A i \in DOMAIN data.timestamps :
               PartitionPresent(t, RsplitLast(k), i) =>
                  LET part == stats_history[i].topics[t].partitions[RsplitLast(k)]
                      series == data.topics[t][k]
                  IN /\ series.lag[i] = Num(part.consumer_lag)
                     /\ series.lag_stored[i] = Num(part.consumer_lag_stored)
                     /\ series.committed[i] = Num(part.committed_offset)
                     /\ series.stored[i] = Num(part.stored_offset)
                     /\ series.leader_epoch[i] = Num(part.committed_leader_epoch)
                     /\ series.lag_stored[i] = Num(-1)
                     /\ series.stored[i] = Num(-1001)
                     /\ series.leader_epoch[i] = Num(-1)

\* C20 witness: a bundle in which a partition is present in one snapshot,
\* with a lag that is no sentinel, and absent from another.
C20_Witness ==
    /\ BundleBuilt
    /\ \E t \in DOMAIN data.topics :
          \E k \in OwnKeys(t) :
             \E i, j \in DOMAIN data.timestamps :
                /\ PartitionPresent(t, RsplitLast(k), i)
                /\ ~PartitionPresent(t, RsplitLast(k), j)
                /\ IsData(data.topics[t][k].lag[i])
                /\ data.topics[t][k].stored[i] = Num(-1001)
                /\ data.topics[t][k].stored[j] = NaN

----------------------------------------------------------------------------
(* Properties of the broker state series *)

\* C21: for every broker present in snapshot i, entry i of its state series
\* is -1 for DOWN, 0 for INIT, 1 for UP, and the gap marker for any other
\* or missing state.
C21_StateOrdinal ==
    BundleBuilt =>
      \A b \in DOMAIN data.brokers :
         \A i \in DOMAIN data.timestamps :
            BrokerPresent(b, i) =>
               LET state == stats_history[i].brokers[b].state
                   entry == data.brokers[b].state[i]
               IN /\ state = "DOWN" => entry = Num(-1)
                  /\ state = "INIT" => entry = Num(0)
                  /\ state = "UP" => entry = Num(1)
                  /\ state \notin {"DOWN", "INIT", "UP"} => entry = NaN

\* C21 witness: one bundle holds a broker observed DOWN, a broker observed
\* UP, and a broker present without a state.
C21_Witness ==
    /\ BundleBuilt
    /\ \A st \in {"DOWN", "UP", NoneStr} :
          \E b \in DOMAIN data.brokers :
             \E i \in DOMAIN data.timestamps :
                BrokerPresent(b, i) /\ stats_history[i].brokers[b].state = st

----------------------------------------------------------------------------
(* Properties of the debug export *)

\* C22: the debug export writes one row per timestamp and, in a series'
\* column, an empty cell exactly when the entry is a gap marker, the token
\* "Not Assigned" exactly when it is -1 or -1001, the number otherwise.
C22_CsvCells ==
    dstep = "done" =>
      /\ Len(csv) = Len(values)
      /\ \A i \in DOMAIN csv :
            /\ csv[i].text = "" <=> IsGap(values[i])
            /\ csv[i].text = "Not Assigned" <=> IsSentinel(values[i])
            /\ IsData(values[i]) => (csv[i].text = "str(v)" /\ csv[i].v = values[i])

\* C22 witness: the export of a series holding a gap, both sentinels and a
\* number.
C22_Witness ==
    /\ dstep = "done"
    /\ \A v \in {NaN, Num(-1), Num(-1001), Num(5)} :
          \E i \in DOMAIN values : values[i] = v

----------------------------------------------------------------------------
(* Properties of a DOWN broker in the diagnostics *)

\* the snapshots at which broker b is present with state DOWN
DownAt(b) ==
    {i \in DOMAIN data.timestamps :
        BrokerPresent(b, i) /\ stats_history[i].brokers[b].state = "DOWN"}

\* C23: a DOWN observation of a broker is real data for diagnostics and
\* export: in the 'Broker State' plot the entries produced by DOWN are
\* counted as valid and not as not_assigned by _series_stats, are not
\* exported as "Not Assigned", and the broker's series is not labelled or
\* summarised as "Not Assigned", even when it is DOWN at every snapshot.
C23_DownIsData ==
    charted =>
      \A b \in DOMAIN state_plot.d_map :
         DownAt(b) # {} =>
            /\ b \in DOMAIN state_plot.stats =>
                  /\ state_plot.stats[b].not_assigned = 0
                  /\ state_plot.stats[b].valid >= Cardinality(DownAt(b))
            /\ b \in DOMAIN state_plot.csv =>
                  \A i \in DownAt(b) :
                     state_plot.csv[b][i].text # "Not Assigned"
            /\ state_plot.label[b] # "(Not Assigned)"
            /\ b \in DOMAIN state_plot.summary =>
                  state_plot.summary[b] # "All points = Not Assigned"

====
